---- MODULE Spec2Model ----
(***************************************************************************)
(* State-machine model of DIC_Exchange: mesh topology (mesh_utils.py),     *)
(* temporal windowing and assembly (convert_to.py), the HDF5 container     *)
(* round trip and rotate (HDF5Exchange.py), strain-channel resolution and  *)
(* the binary decoders (parsers.py).                                       *)
(* Python indices are kept 0-based; TLA+ sequences are 1-based, so the     *)
(* Python element x[i] is the TLA+ element x[i + 1].                       *)
(***************************************************************************)
EXTENDS Integers, Sequences, FiniteSets, TLC

VARIABLES
    \* ---- mesh_utils.mesh_holes / DIC_Result._init_mesh_property ----
    mesh,                   \* DIC_Result._mesh, the argument of mesh_holes
    pc,                     \* position of the running call
    caller,                 \* "property": _init_mesh_property, "function": has_mesh_hole
    unique_half_edges,      \* list returned by mesh_boundaries
    unique_half_edges_set,  \* mesh_holes: boundary edges not yet consumed
    holes,                  \* mesh_holes: loops completed so far
    buff_hole,              \* mesh_holes: loop being walked
    next_summit,            \* mesh_holes: frontier vertex
    end_summit,             \* mesh_holes: start vertex of the seed edge
    link_running,           \* mesh_holes: inner while flag
    for_rest,               \* edges the running for-pass has not visited yet
    to_remove,              \* unique_half_edges_set_to_remove
    passes,                 \* number of for-passes started for the current loop
    result,                 \* return value of mesh_holes
    has_mesh_holes,         \* DIC_Result.has_mesh_holes
    fn_result               \* return value of has_mesh_hole(mesh)

VARIABLES
    \* ---- convert_to.load_from / _numpyfi ----
    force_values,           \* np.array(list(force.values())), document order
    time_values,            \* np.array(list(time.values())), document order
    coords_valid,           \* per stage: the keys of coords[stage] (valid vertices)
    mesh_o,                 \* triangle list of the document (original indices)
    lpc,                    \* position in load_from
    raised,                 \* exception that ended load_from, None if none
    the_first_time_step,
    the_last_time_step,
    force_rupture_ratio,    \* argument of load_from, <<num, den>> when given
    offset_force_rupture_ratio,
    rupture,                \* local of load_from
    thinning,               \* argument of load_from, the step of _numpyfi
    list_stage,             \* _numpyfi: selected stage ids
    element_set,            \* _numpyfi: retained vertex indices, as a list
    mesh_a, coords_a, strains_a, force_a, time_a,   \* what _numpyfi returns
    dic                     \* DIC_Result returned by load_from, None if none

loadVars == <<force_values, time_values, coords_valid, mesh_o, lpc, raised,
              the_first_time_step, the_last_time_step, force_rupture_ratio,
              offset_force_rupture_ratio, rupture, thinning, list_stage, element_set,
              mesh_a, coords_a, strains_a, force_a, time_a, dic>>

VARIABLES
    \* ---- DIC_Result.save_to_hdf5 / load_from_hdf5 ----
    saved,                  \* the DIC_Result that is saved
    h5file,                 \* the container written, None before
    loaded,                 \* the DIC_Result load_from_hdf5 returns, None before
    hpc,                    \* position in the round trip
    h_raised,               \* exception that ended load_from_hdf5, None if none
    \* ---- ARAMIS_XML_Parser.parse ----
    list_epsilon,           \* list(comparison_surface_list.keys())
    eps_xx_key, eps_yy_key, eps_xy_key,
    strains_names,          \* component behind each key of the returned strains
    ppc,                    \* position in parse
    p_raised                \* exception that ended parse, None if none

h5Vars == <<saved, h5file, loaded, hpc, h_raised>>

parseVars == <<list_epsilon, eps_xx_key, eps_yy_key, eps_xy_key, strains_names, ppc,
               p_raised>>

VARIABLES
    \* ---- parsers.read_surface_component_scalar / _vertices / _triangles ----
    decoder,                \* which of the three functions runs
    payload,                \* the fields the message was written from
    message_bytes,          \* base64.b64decode(...), a sequence of bytes
    off,                    \* read position in message_bytes
    d_i,                    \* loop index i
    version, unit_name, n_vertices, dire_vect_flag,
    indexes, buff_scalar, buff_vector,
    min_corner, max_corner, vertices_cords_i,
    d_result,               \* value returned, None before
    d_raised,               \* exception that ended the decode, None if none
    dpc,                    \* position in the decode
    \* ---- DIC_Result.rotate ----
    rot_self,               \* the DIC_Result before rotate
    matrix,                 \* the argument of rotate
    old_e_x, new_e_x, cos_th, cp_e_x, sgn_th, sin_th,
    rot_out,                \* the DIC_Result after rotate, None before
    rpc,                    \* position in rotate
    \* ---- mesh_utils.node_surface_normal ----
    n_mesh,                 \* argument mesh
    n_node,                 \* coords.shape[1]
    node_connection,        \* node -> np.unique(mesh[is_in_el])
    i_node,                 \* loop index of the second loop
    points,                 \* i_node -> nodes whose coordinates form the point list
    npc                     \* position in node_surface_normal

decVars == <<decoder, payload, message_bytes, off, d_i, version, unit_name, n_vertices,
             dire_vect_flag, indexes, buff_scalar, buff_vector, min_corner, max_corner,
             vertices_cords_i, d_result, d_raised, dpc>>

rotVars == <<rot_self, matrix, old_e_x, new_e_x, cos_th, cp_e_x, sgn_th, sin_th, rot_out,
             rpc>>

normVars == <<n_mesh, n_node, node_connection, i_node, points, npc>>

meshVars == <<mesh, pc, caller, unique_half_edges, unique_half_edges_set, holes, buff_hole,
              next_summit, end_summit, link_running, for_rest, to_remove,
              passes, result, has_mesh_holes, fn_result>>

vars == <<meshVars, loadVars, h5Vars, parseVars, decVars, rotVars, normVars>>

\* what an action of one component leaves alone
MeshFrame == UNCHANGED <<loadVars, h5Vars, parseVars, decVars, rotVars, normVars>>
LoadFrame == UNCHANGED <<meshVars, h5Vars, parseVars, decVars, rotVars, normVars>>
H5Frame == UNCHANGED <<meshVars, loadVars, parseVars, decVars, rotVars, normVars>>
ParseFrame == UNCHANGED <<meshVars, loadVars, h5Vars, decVars, rotVars, normVars>>
DecFrame == UNCHANGED <<meshVars, loadVars, h5Vars, parseVars, rotVars, normVars>>
RotFrame == UNCHANGED <<meshVars, loadVars, h5Vars, parseVars, decVars, normVars>>
NormFrame == UNCHANGED <<meshVars, loadVars, h5Vars, parseVars, decVars, rotVars>>

(***************************************************************************)
(* Bounds                                                                  *)
(***************************************************************************)
NumVert == 6        \* vertex indices 0 .. NumVert-1 of the walked meshes
MaxTri == 2         \* triangles per enumerated mesh
NumVertB == 4       \* vertex indices of the meshes given to mesh_boundaries alone
MaxTriB == 2        \* triangles per mesh given to mesh_boundaries alone
NumVertH == 5       \* vertex indices of the meshes of SpecHoles
MaxTriH == 2        \* triangles per mesh of SpecHoles

(***************************************************************************)
(* Python values                                                           *)
(***************************************************************************)
Range(s) == {s[i] : i \in DOMAIN s}

\* Python's None, and a value that is not None
None == <<>>
Some(v) == <<v>>
Val(o) == o[1]

(***************************************************************************)
(* mesh_utils.mesh_boundaries                                              *)
(***************************************************************************)
\* the three frozensets built from one element el = (el[0], el[1], el[2])
half_edgesOpenMutant(el) == << {el[1], el[2]}, {el[2], el[3]} >>

half_edges(el) == << {el[1], el[2]}, {el[2], el[3]}, {el[1], el[3]} >>

\* list.remove(x): drops the first occurrence of x
ListRemove(list, x) ==
    LET i == CHOOSE k \in 1..Len(list) :
                 list[k] = x /\ \A j \in 1..(k-1) : list[j] # x
    IN  SubSeq(list, 1, i-1) \o SubSeq(list, i+1, Len(list))

\* body of "for an_half_edge in half_edges": toggle membership in the list
ToggleKeepMutant(list, an_half_edge) ==
    IF an_half_edge \in Range(list) THEN list ELSE Append(list, an_half_edge)

Toggle(list, an_half_edge) ==
    IF an_half_edge \in Range(list)
    THEN ListRemove(list, an_half_edge)
    ELSE Append(list, an_half_edge)

RECURSIVE ToggleAll(_, _)
ToggleAll(list, edges) ==
    IF edges = <<>> THEN list
    ELSE ToggleAll(Toggle(list, Head(edges)), Tail(edges))

RECURSIVE BoundariesLoop(_, _)
BoundariesLoop(list, m) ==
    IF m = <<>> THEN list
    ELSE BoundariesLoop(ToggleAll(list, half_edges(Head(m))), Tail(m))

mesh_boundaries(m) == BoundariesLoop(<<>>, m)

(***************************************************************************)
(* Inputs of the mesh walk                                                 *)
(***************************************************************************)
Vertices == 0..(NumVert - 1)

Triangles == {t \in Vertices \X Vertices \X Vertices : t[1] < t[2] /\ t[2] < t[3]}

IsBoundedMesh(m) == \E n \in 0..MaxTri : m \in [1..n -> Triangles]

\* a square patch of four triangles around a centre vertex: one outer contour
SquarePatch == << <<0,1,4>>, <<1,2,4>>, <<2,3,4>>, <<0,3,4>> >>

\* a triangulated ring: outer contour 0-1-2, interior hole 3-4-5
PatchWithHole == << <<0,1,3>>, <<1,3,4>>, <<1,2,4>>, <<2,4,5>>, <<0,2,5>>, <<0,3,5>> >>

\* a closed surface (tetrahedron): no boundary edge at all
ClosedSurface == << <<0,1,2>>, <<0,1,3>>, <<0,2,3>>, <<1,2,3>> >>

ExampleMeshes == {SquarePatch, PatchWithHole, ClosedSurface}

IsMesh(m) == IsBoundedMesh(m) \/ m \in ExampleMeshes

\* triangles given to mesh_boundaries alone: vertex triples listed in ascending or
\* in descending order (both windings), degenerate ones (a repeated vertex) included
VerticesB == 0..(NumVertB - 1)
TrianglesB == {t \in VerticesB \X VerticesB \X VerticesB :
                  \/ t[1] <= t[2] /\ t[2] <= t[3]
                  \/ t[1] >= t[2] /\ t[2] >= t[3]}
IsMeshB(m) == \E n \in 0..MaxTriB : m \in [1..n -> TrianglesB]

(***************************************************************************)
(* mesh_utils.mesh_holes, one step per statement group                     *)
(***************************************************************************)
NoResult == [kind |-> "unset", loops |-> <<>>]
NoneResult == [kind |-> "None", loops |-> <<>>]
ListResult(l) == [kind |-> "list", loops |-> l]

\* locals of mesh_holes are dead once it returns or raises
ClearLocals ==
    /\ unique_half_edges' = <<>>
    /\ unique_half_edges_set' = {}
    /\ holes' = <<>>
    /\ buff_hole' = <<>>
    /\ next_summit' = -1
    /\ end_summit' = -1
    /\ link_running' = FALSE
    /\ for_rest' = {}
    /\ to_remove' = {}
    /\ passes' = 0

\* lines 81-83: boundary edges, empty result list, the working set
MeshHolesEnter ==
    /\ pc = "call"
    /\ MeshFrame
    /\ unique_half_edges' = mesh_boundaries(mesh)
    /\ unique_half_edges_set' = Range(unique_half_edges')
    /\ holes' = <<>>
    /\ pc' = "while"
    /\ UNCHANGED <<mesh, caller, buff_hole, next_summit, end_summit, link_running,
                   for_rest, to_remove, passes, result, has_mesh_holes, fn_result>>

\* line 84 with an empty working set: the while is left and the function ends
\* without a return statement, so the call evaluates to None
MeshHolesFallOff ==
    /\ pc = "while"
    /\ MeshFrame
    /\ unique_half_edges_set = {}
    /\ result' = NoneResult
    /\ pc' = "return"
    /\ ClearLocals
    /\ UNCHANGED <<mesh, caller, has_mesh_holes, fn_result>>

\* lines 85-90: pop an arbitrary edge; list(frozenset) fixes its orientation
\* (either one, it depends on the hash table); a one-vertex edge has no [1]
MeshHolesSeed ==
    /\ pc = "while"
    /\ MeshFrame
    /\ unique_half_edges_set # {}
    /\ \E e \in unique_half_edges_set :
        /\ unique_half_edges_set' = unique_half_edges_set \ {e}
        /\ IF Cardinality(e) < 2
           THEN /\ pc' = "error"
                /\ UNCHANGED <<buff_hole, next_summit, end_summit, link_running,
                               for_rest, to_remove, passes>>
           ELSE \E a \in e :
                  LET b == CHOOSE x \in e : x # a IN
                  /\ buff_hole' = << <<a, b>> >>
                  /\ next_summit' = b
                  /\ end_summit' = a
                  /\ link_running' = TRUE
                  \* line 92-94: first pass starts
                  /\ to_remove' = {}
                  /\ for_rest' = unique_half_edges_set'
                  /\ passes' = 1
                  /\ pc' = "for"
    /\ UNCHANGED <<mesh, caller, unique_half_edges, holes, result, has_mesh_holes, fn_result>>

\* lines 94-108: one iteration of "for an_half_edges in unique_half_edges_set"
MeshHolesForStep ==
    /\ pc = "for"
    /\ MeshFrame
    /\ for_rest # {}
    /\ \E an_half_edges \in for_rest :
        /\ for_rest' = for_rest \ {an_half_edges}
        /\ IF next_summit \in an_half_edges
           THEN IF Cardinality(an_half_edges) < 2
                THEN \* an_half_edges_l[1] on a one-element list
                     /\ pc' = "error"
                     /\ to_remove' = to_remove \cup {an_half_edges}
                     /\ UNCHANGED <<buff_hole, next_summit, link_running>>
                ELSE LET other == CHOOSE x \in an_half_edges : x # next_summit IN
                     /\ to_remove' = to_remove \cup {an_half_edges}
                     /\ buff_hole' = Append(buff_hole, <<next_summit, other>>)
                     /\ next_summit' = other
                     /\ IF end_summit \in an_half_edges
                        THEN link_running' = FALSE /\ pc' = "remove"   \* break
                        ELSE link_running' = link_running /\ pc' = "for"
           ELSE UNCHANGED <<to_remove, buff_hole, next_summit, link_running, pc>>
    /\ UNCHANGED <<mesh, caller, unique_half_edges, unique_half_edges_set, holes, end_summit, passes,
                   result, has_mesh_holes, fn_result>>

\* the for loop is exhausted without a break
MeshHolesForEnd ==
    /\ pc = "for"
    /\ MeshFrame
    /\ for_rest = {}
    /\ pc' = "remove"
    /\ UNCHANGED <<mesh, caller, unique_half_edges, unique_half_edges_set, holes, buff_hole, next_summit,
                   end_summit, link_running, for_rest, to_remove, passes, result,
                   has_mesh_holes, fn_result>>

\* lines 109-110, then line 92 again with link_running still set: next pass
MeshHolesNextPass ==
    /\ pc = "remove"
    /\ MeshFrame
    /\ link_running
    /\ passes < NumVert * NumVert
    /\ unique_half_edges_set' = unique_half_edges_set \ to_remove
    /\ to_remove' = {}
    /\ for_rest' = unique_half_edges_set'
    /\ passes' = passes + 1
    /\ pc' = "for"
    /\ UNCHANGED <<mesh, caller, unique_half_edges, holes, buff_hole, next_summit, end_summit,
                   link_running, result, has_mesh_holes, fn_result>>

\* lines 109-110, then line 92 with link_running cleared, then lines 112-113:
\* the loop is appended and "return holes" (inside the outer while) ends the call
MeshHolesReturnAll(hs) == ListResult(hs)

MeshHolesReturn ==
    /\ pc = "remove"
    /\ MeshFrame
    /\ ~link_running
    /\ result' = MeshHolesReturnAll(Append(holes, buff_hole))
    /\ pc' = "return"
    /\ ClearLocals
    /\ UNCHANGED <<mesh, caller, has_mesh_holes, fn_result>>

(***************************************************************************)
(* DIC_Result._init_mesh_property, set_mesh and mesh_utils.has_mesh_hole   *)
(***************************************************************************)
\* HDF5Exchange.py lines 77-78: len(None) raises TypeError
InitMeshPropertyEnd ==
    /\ pc = "return"
    /\ MeshFrame
    /\ caller = "property"
    /\ IF result.kind = "None"
       THEN pc' = "error" /\ UNCHANGED has_mesh_holes
       ELSE pc' = "ready" /\ has_mesh_holes' = Some(Len(result.loops) > 1)
    /\ UNCHANGED <<mesh, caller, unique_half_edges, unique_half_edges_set, holes, buff_hole, next_summit,
                   end_summit, link_running, for_rest, to_remove, passes, result,
                   fn_result>>

\* mesh_utils.py lines 122-123
HasMeshHoleEnd ==
    /\ pc = "return"
    /\ MeshFrame
    /\ caller = "function"
    /\ IF result.kind = "None"
       THEN pc' = "error" /\ UNCHANGED fn_result
       ELSE pc' = "ready" /\ fn_result' = Some(Len(result.loops) > 1)
    /\ UNCHANGED <<mesh, caller, unique_half_edges, unique_half_edges_set, holes, buff_hole, next_summit,
                   end_summit, link_running, for_rest, to_remove, passes, result,
                   has_mesh_holes>>

\* HDF5Exchange.py lines 70-72: the mesh property setter
SetMesh ==
    /\ pc = "ready"
    /\ MeshFrame
    /\ IsMesh(mesh')
    /\ caller' = "property"
    /\ pc' = "call"
    /\ result' = NoResult
    /\ fn_result' = None
    /\ UNCHANGED <<unique_half_edges, unique_half_edges_set, holes, buff_hole, next_summit,
                   end_summit, link_running, for_rest, to_remove, passes, has_mesh_holes>>

\* a call has_mesh_hole(r.mesh) on the mesh the object holds
HasMeshHoleCall ==
    /\ pc = "ready"
    /\ MeshFrame
    /\ fn_result = None
    /\ caller' = "function"
    /\ pc' = "call"
    /\ result' = NoResult
    /\ UNCHANGED <<mesh, unique_half_edges, unique_half_edges_set, holes, buff_hole,
                   next_summit, end_summit, link_running, for_rest, to_remove, passes,
                   has_mesh_holes, fn_result>>

MeshLocalsInit ==
    /\ unique_half_edges = <<>>
    /\ unique_half_edges_set = {}
    /\ holes = <<>>
    /\ buff_hole = <<>>
    /\ next_summit = -1
    /\ end_summit = -1
    /\ link_running = FALSE
    /\ for_rest = {}
    /\ to_remove = {}
    /\ passes = 0
    /\ result = NoResult
    /\ has_mesh_holes = None
    /\ fn_result = None

\* no mesh call is running
MeshIdle ==
    /\ mesh = <<>>
    /\ pc = "idle"
    /\ caller = "none"
    /\ MeshLocalsInit

\* DIC_Result.__init__ has stored the mesh and is about to run _init_mesh_property
MeshStart ==
    /\ IsMesh(mesh)
    /\ pc = "call"
    /\ caller = "property"
    /\ MeshLocalsInit

NextMesh ==
    \/ MeshHolesEnter
    \/ MeshHolesFallOff
    \/ MeshHolesSeed
    \/ MeshHolesForStep
    \/ MeshHolesForEnd
    \/ MeshHolesNextPass
    \/ MeshHolesReturn
    \/ InitMeshPropertyEnd
    \/ HasMeshHoleEnd
    \/ SetMesh
    \/ HasMeshHoleCall


(***************************************************************************)
(* mesh_boundaries called on its own                                       *)
(***************************************************************************)
MeshBoundariesCall ==
    /\ pc = "call_boundaries"
    /\ MeshFrame
    /\ unique_half_edges' = mesh_boundaries(mesh)
    /\ pc' = "boundaries_done"
    /\ UNCHANGED <<mesh, caller, unique_half_edges_set, holes, buff_hole, next_summit,
                   end_summit, link_running, for_rest, to_remove, passes, result,
                   has_mesh_holes, fn_result>>

BoundariesStart ==
    /\ IsMeshB(mesh)
    /\ pc = "call_boundaries"
    /\ caller = "boundaries"
    /\ MeshLocalsInit

NextBoundaries == MeshBoundariesCall


(***************************************************************************)
(* convert_to.load_from: what the parser handed over                       *)
(***************************************************************************)
\* stage ids are the document positions 0 .. n-1
StageIds(n) == [i \in 1..n |-> i - 1]

\* coords[stage][vertex]: the dequantized position measured there
Coord(a_stage, a_el) == [kind |-> "xyz", stage |-> a_stage, vertex |-> a_el]

\* strains[channel][stage][vertex]: struct.unpack("<f", ...) gives a 1-tuple
strains_o(channel, a_stage, a_el) ==
    << [kind |-> channel, stage |-> a_stage, vertex |-> a_el] >>

\* node_surface_normal(mesh, coords), left uninterpreted
node_surface_normal(m, coords) == [kind |-> "normals", mesh |-> m, coords |-> coords]

(***************************************************************************)
(* numpy / Python helpers                                                  *)
(***************************************************************************)
SetMax(S) == CHOOSE x \in S : \A y \in S : y <= x
SetMin(S) == CHOOSE x \in S : \A y \in S : x <= y
Min2(a, b) == IF a <= b THEN a ELSE b
Max2(a, b) == IF a >= b THEN a ELSE b

\* np.where(cond)[0] for "values >= num/den" and "values <= num/den", 0-based
WhereGE(values, num, den) == {i \in 0..(Len(values) - 1) : values[i + 1] * den >= num}
WhereLE(values, num, den) == {i \in 0..(Len(values) - 1) : values[i + 1] * den <= num}

\* list[start:stop:step] for step None or positive
SliceBound(i, n) ==
    IF i < 0 THEN (IF i + n < 0 THEN 0 ELSE i + n) ELSE (IF i > n THEN n ELSE i)

PySlice(list, start, stop, step) ==
    LET n == Len(list)
        s == SliceBound(start, n)
        e == SliceBound(stop, n)
        st == IF step = None THEN 1 ELSE Val(step)
        count == IF e <= s THEN 0 ELSE (e - s + st - 1) \div st
    IN  [k \in 1..count |-> list[s + (k - 1) * st + 1]]

\* list.index(x), 0-based
ListIndex(list, x) ==
    (CHOOSE k \in 1..Len(list) : list[k] = x /\ \A j \in 1..(k-1) : list[j] # x) - 1

\* list(a_set): some order of the members, fixed by the hash table
Orderings(S) ==
    {q \in [1..Cardinality(S) -> S] : \A i, j \in 1..Cardinality(S) : q[i] = q[j] => i = j}

(***************************************************************************)
(* convert_to.load_from, lines 33-73: the stage window.  Each keyword      *)
(* argument is drawn where load_from reads it (it is read in one block).   *)
(***************************************************************************)
NumStages == 3      \* stages of the documents whose force and time series vary
MaxForce == 2       \* force readings 0 .. MaxForce

\* the series of the documented example, over seven stages
ExampleForce == <<0, 2, 5, 9, 10, 8, 3>>

StepArgs == {None} \cup {Some(k) : k \in -1..(NumStages + 1)}
RuptureOffsets == (0 - NumStages - 1)..1
Offsets == -1..1
Ratios == {<<1, 2>>, <<4, 5>>, <<6, 5>>}      \* 0.5, 0.8, 1.2
ForceArgs == {None} \cup {Some(f) : f \in 0..(MaxForce + 1)}
TimeArgs == {None} \cup {Some(t) : t \in 0..(2 * NumStages)}
ThinningArgs == {None, Some(0), Some(1), Some(2)}

LoadLocals == <<rupture, force_rupture_ratio, offset_force_rupture_ratio>>
NumpyfiOut == <<thinning, list_stage, element_set, mesh_a, coords_a, strains_a,
                force_a, time_a>>
LoadInputs == <<force_values, time_values, coords_valid, mesh_o>>

\* an exception leaves load_from: nothing is returned
Raise(exc) ==
    /\ lpc' = "error"
    /\ raised' = Some(exc)

\* lines 33-37
WindowInit ==
    /\ lpc = "w_init"
    /\ LoadFrame
    /\ the_first_time_step' = 0
    /\ the_last_time_step' = Len(coords_valid)
    /\ lpc' = "w_last"
    /\ UNCHANGED <<LoadInputs, LoadLocals, NumpyfiOut, raised, dic>>

\* lines 39-40
WindowLast ==
    /\ lpc = "w_last"
    /\ LoadFrame
    /\ \E last_time_step \in StepArgs :
         the_last_time_step' = IF last_time_step = None THEN the_last_time_step
                               ELSE Min2(Val(last_time_step), the_last_time_step)
    /\ lpc' = "w_first"
    /\ UNCHANGED <<LoadInputs, LoadLocals, NumpyfiOut, raised, dic, the_first_time_step>>

\* lines 42-43
WindowFirst ==
    /\ lpc = "w_first"
    /\ LoadFrame
    /\ \E first_timestep \in StepArgs :
         the_first_time_step' = IF first_timestep = None THEN the_first_time_step
                                ELSE Max2(Val(first_timestep), the_first_time_step)
    /\ lpc' = "w_ratio"
    /\ UNCHANGED <<LoadInputs, LoadLocals, NumpyfiOut, raised, dic, the_last_time_step>>

\* lines 46-47: np.max(np.where(force_values >= threshold)), threshold =
\* force_rupture_ratio * force_values.max(); np.max of no index raises ValueError
RuptureFirstMutant(values, ratio) ==
    SetMin(WhereGE(values, ratio[1] * SetMax(Range(values)), ratio[2]))

RuptureIndex(values, ratio) ==
    SetMax(WhereGE(values, ratio[1] * SetMax(Range(values)), ratio[2]))

\* lines 45-47
WindowRupture ==
    /\ lpc = "w_ratio"
    /\ LoadFrame
    /\ \E ratio \in {None} \cup {Some(r) : r \in Ratios} :
         /\ force_rupture_ratio' = ratio
         /\ IF ratio = None
            THEN lpc' = "w_fmax" /\ UNCHANGED <<rupture, raised>>
            ELSE IF WhereGE(force_values, Val(ratio)[1] * SetMax(Range(force_values)),
                            Val(ratio)[2]) = {}
                 THEN Raise("ValueError") /\ UNCHANGED rupture
                 ELSE /\ rupture' = Some(RuptureIndex(force_values, Val(ratio)))
                      /\ lpc' = "w_ratio_offset"
                      /\ UNCHANGED raised
    /\ UNCHANGED <<LoadInputs, NumpyfiOut, dic, the_first_time_step, the_last_time_step,
                   offset_force_rupture_ratio>>

\* lines 48-49
AddOffsetDropMutant(r, offset) == r

AddOffset(r, offset) == r + offset

WindowRuptureOffset ==
    /\ lpc = "w_ratio_offset"
    /\ LoadFrame
    /\ \E offset \in RuptureOffsets :
         /\ offset_force_rupture_ratio' = offset
         /\ rupture' = Some(AddOffset(Val(rupture), offset))
         /\ the_last_time_step' = Min2(Val(rupture'), the_last_time_step)
    /\ lpc' = "w_fmax"
    /\ UNCHANGED <<LoadInputs, NumpyfiOut, raised, dic, the_first_time_step,
                   force_rupture_ratio>>

\* lines 51-55
WindowForceMax ==
    /\ lpc = "w_fmax"
    /\ LoadFrame
    /\ \E force_max \in ForceArgs, offset_force_max \in Offsets :
         IF force_max = None
         THEN lpc' = "w_fmin" /\ UNCHANGED <<rupture, raised, the_last_time_step>>
         ELSE IF WhereLE(force_values, Val(force_max), 1) = {}
              THEN Raise("ValueError") /\ UNCHANGED <<rupture, the_last_time_step>>
              ELSE /\ rupture' = Some(SetMax(WhereLE(force_values, Val(force_max), 1))
                                      + offset_force_max)
                   /\ the_last_time_step' = Min2(Val(rupture'), the_last_time_step)
                   /\ lpc' = "w_fmin"
                   /\ UNCHANGED raised
    /\ UNCHANGED <<LoadInputs, NumpyfiOut, dic, the_first_time_step,
                   force_rupture_ratio, offset_force_rupture_ratio>>

\* lines 57-61
WindowForceMin ==
    /\ lpc = "w_fmin"
    /\ LoadFrame
    /\ \E force_min \in ForceArgs, offset_force_min \in Offsets :
         IF force_min = None
         THEN lpc' = "w_tmin" /\ UNCHANGED <<rupture, raised, the_first_time_step>>
         ELSE IF WhereGE(force_values, Val(force_min), 1) = {}
              THEN Raise("ValueError") /\ UNCHANGED <<rupture, the_first_time_step>>
              ELSE /\ rupture' = Some(SetMin(WhereGE(force_values, Val(force_min), 1))
                                      + offset_force_min)
                   /\ the_first_time_step' = Max2(Val(rupture'), the_first_time_step)
                   /\ lpc' = "w_tmin"
                   /\ UNCHANGED raised
    /\ UNCHANGED <<LoadInputs, NumpyfiOut, dic, the_last_time_step,
                   force_rupture_ratio, offset_force_rupture_ratio>>

\* lines 63-67
WindowTimeMin ==
    /\ lpc = "w_tmin"
    /\ LoadFrame
    /\ \E time_min \in TimeArgs, offset_time_min \in Offsets :
         IF time_min = None
         THEN lpc' = "w_tmax" /\ UNCHANGED <<raised, the_first_time_step>>
         ELSE IF WhereGE(time_values, Val(time_min), 1) = {}
              THEN Raise("ValueError") /\ UNCHANGED the_first_time_step
              ELSE /\ the_first_time_step' =
                        Max2(SetMin(WhereGE(time_values, Val(time_min), 1)) + offset_time_min,
                             the_first_time_step)
                   /\ lpc' = "w_tmax"
                   /\ UNCHANGED raised
    /\ UNCHANGED <<LoadInputs, LoadLocals, NumpyfiOut, dic, the_last_time_step>>

\* lines 69-73
WindowTimeMax ==
    /\ lpc = "w_tmax"
    /\ LoadFrame
    /\ \E time_max \in TimeArgs, offset_time_max \in Offsets :
         IF time_max = None
         THEN lpc' = "numpyfi" /\ UNCHANGED <<raised, the_last_time_step>>
         ELSE IF WhereGE(time_values, Val(time_max), 1) = {}
              THEN Raise("ValueError") /\ UNCHANGED the_last_time_step
              ELSE /\ the_last_time_step' =
                        Min2(SetMin(WhereGE(time_values, Val(time_max), 1)) + offset_time_max,
                             the_last_time_step)
                   /\ lpc' = "numpyfi"
                   /\ UNCHANGED raised
    /\ UNCHANGED <<LoadInputs, LoadLocals, NumpyfiOut, dic, the_first_time_step>>

(***************************************************************************)
(* convert_to._numpyfi                                                     *)
(***************************************************************************)
\* lines 87-90: element_set starts as the keys of the first selected stage and is
\* intersected with the keys of every selected stage
RECURSIVE IntersectStages(_, _, _)
IntersectStages(acc, stages, cv) ==
    IF stages = <<>> THEN acc
    ELSE IntersectStages(acc \cap cv[Head(stages) + 1], Tail(stages), cv)

ElementSetFirstStageMutant(stages, cv) == cv[stages[1] + 1]

ElementSet(stages, cv) == IntersectStages(cv[stages[1] + 1], stages, cv)

\* line 98: the element rewritten to positions in element_set
RemapKeepMutant(el, es) == el

Remap(el, es) == <<ListIndex(es, el[1]), ListIndex(es, el[2]), ListIndex(es, el[3])>>

\* lines 95-98
RECURSIVE CleanMesh(_, _, _)
CleanMesh(mesh_buff, m, es) ==
    IF m = <<>> THEN mesh_buff
    ELSE LET el == Head(m)
             keep == \A i \in 1..3 : el[i] \in Range(es)
         IN  CleanMesh(IF keep THEN Append(mesh_buff, Remap(el, es)) ELSE mesh_buff,
                       Tail(m), es)

\* lines 103-109
StackCoords(stages, es) ==
    [t \in 1..Len(stages) |-> [p \in 1..Len(es) |-> Coord(stages[t], es[p])]]

\* lines 117-119: the row appended for one (stage, element)
StrainRow(a_stage, a_el) ==
    << strains_o("eps_xx", a_stage, a_el),
       strains_o("eps_yy", a_stage, a_el),
       strains_o("eps_xx", a_stage, a_el) >>

\* lines 112-121: np.array(strains_np)[:, :, :, 0]
StackStrains(stages, es) ==
    [t \in 1..Len(stages) |->
        [p \in 1..Len(es) |->
            [c \in 1..3 |-> StrainRow(stages[t], es[p])[c][1]]]]

\* lines 124-131: force_o and time_o are keyed by stage id
StackScalar(values, stages) == [t \in 1..Len(stages) |-> values[stages[t] + 1]]

\* line 75 with lines 85-133
Numpyfi ==
    /\ lpc = "numpyfi"
    /\ LoadFrame
    /\ \E step \in ThinningArgs :
         /\ thinning' = step
         /\ IF step = Some(0)
            THEN \* slice step cannot be zero
                 /\ Raise("ValueError")
                 /\ UNCHANGED <<list_stage, element_set, mesh_a, coords_a, strains_a,
                                force_a, time_a>>
            ELSE LET ls == PySlice(StageIds(Len(time_values)), the_first_time_step,
                                   the_last_time_step, step)
                 IN  IF ls = <<>>
                     THEN \* list_stage[0] of an empty list (line 87)
                          /\ Raise("IndexError")
                          /\ list_stage' = ls
                          /\ UNCHANGED <<element_set, mesh_a, coords_a, strains_a,
                                         force_a, time_a>>
                     ELSE \E es \in Orderings(ElementSet(ls, coords_valid)) :
                          /\ list_stage' = ls
                          /\ element_set' = es
                          /\ mesh_a' = CleanMesh(<<>>, mesh_o, es)
                          /\ coords_a' = StackCoords(ls, es)
                          /\ strains_a' = StackStrains(ls, es)
                          /\ time_a' = StackScalar(time_values, ls)
                          /\ force_a' = StackScalar(force_values, ls)
                          /\ lpc' = "construct"
                          /\ UNCHANGED raised
    /\ UNCHANGED <<LoadInputs, LoadLocals, dic, the_first_time_step, the_last_time_step>>

(***************************************************************************)
(* HDF5Exchange.DIC_Result.__init__                                        *)
(***************************************************************************)
\* what stops the constructor: node_surface_normal needs a (n, m, 3) coordinate
\* array and a (q, 3) mesh, and len(mesh_holes(mesh)) needs a list
InitFailure(coords, m, node_normal) ==
    IF node_normal = None /\ \A t \in DOMAIN coords : coords[t] = <<>>
    THEN Some("ValueError")
    ELSE IF node_normal = None /\ m = <<>> THEN Some("AxisError")
    ELSE IF mesh_boundaries(m) = <<>> THEN Some("TypeError")
    ELSE None

\* number of loops mesh_holes returns when it returns a list: it returns at the
\* end of the first pass of its outer while (line 113)
MeshHolesLen(m) == 1

DIC_Result(coords, strains, force, time, m, node_normal) ==
    [ strains |-> strains,
      meta_data |-> [version |-> "0.1"],
      coords |-> coords,
      force |-> force,
      time |-> time,
      mesh |-> m,
      node_normals |-> IF node_normal = None
                       THEN node_surface_normal(m, coords) ELSE Val(node_normal),
      has_mesh_holes |-> MeshHolesLen(m) > 1 ]

\* line 79
LoadFromReturn ==
    /\ lpc = "construct"
    /\ LoadFrame
    /\ IF InitFailure(coords_a, mesh_a, None) # None
       THEN Raise(Val(InitFailure(coords_a, mesh_a, None))) /\ UNCHANGED dic
       ELSE /\ dic' = Some(DIC_Result(coords_a, strains_a, force_a, time_a, mesh_a, None))
            /\ lpc' = "returned"
            /\ UNCHANGED raised
    /\ UNCHANGED <<LoadInputs, LoadLocals, NumpyfiOut, the_first_time_step,
                   the_last_time_step>>

(***************************************************************************)
(* Specifications of load_from                                             *)
(***************************************************************************)
NumPts == 4         \* vertex indices 0 .. NumPts-1 of the assembled documents
NumStagesA == 2     \* stages of the documents whose vertex validity varies
MaxTriA == 2        \* triangles of the documents whose vertex validity varies

LoadLocalsInit ==
    /\ raised = None
    /\ force_rupture_ratio = None
    /\ offset_force_rupture_ratio = 0
    /\ rupture = None
    /\ thinning = None
    /\ list_stage = <<>>
    /\ element_set = <<>>
    /\ mesh_a = <<>>
    /\ coords_a = <<>>
    /\ strains_a = <<>>
    /\ force_a = <<>>
    /\ time_a = <<>>
    /\ dic = None

\* load_from is not running
LoadIdle ==
    /\ force_values = <<>>
    /\ time_values = <<>>
    /\ coords_valid = <<>>
    /\ mesh_o = <<>>
    /\ lpc = "idle"
    /\ the_first_time_step = 0
    /\ the_last_time_step = 0
    /\ LoadLocalsInit

\* relative time of the stage at document position i (0-based)
RelTime(i) == 2 * i

\* documents whose force and time series vary; every vertex is valid in every
\* stage and the mesh is one triangle
WindowStart ==
    /\ \/ force_values \in [1..NumStages -> 0..MaxForce]
       \/ force_values = ExampleForce
    /\ time_values = [i \in 1..Len(force_values) |-> RelTime(i - 1)]
    /\ coords_valid = [i \in 1..Len(force_values) |-> {0, 1, 2}]
    /\ mesh_o = << <<0, 1, 2>> >>
    /\ lpc = "w_init"
    /\ the_first_time_step = 0
    /\ the_last_time_step = 0
    /\ LoadLocalsInit

NextWindow ==
    \/ WindowInit
    \/ WindowLast
    \/ WindowFirst
    \/ WindowRupture
    \/ WindowRuptureOffset
    \/ WindowForceMax
    \/ WindowForceMin
    \/ WindowTimeMin
    \/ WindowTimeMax
    \/ Numpyfi
    \/ LoadFromReturn

\* documents whose vertex validity and mesh vary; load_from has resolved its window
\* (line 75 is next)
PointsA == 0..(NumPts - 1)
TrianglesA == {t \in PointsA \X PointsA \X PointsA : t[1] < t[2] /\ t[2] < t[3]}

AssemblyStart ==
    /\ force_values = [i \in 1..NumStagesA |-> NumStagesA - i]
    /\ time_values = [i \in 1..NumStagesA |-> RelTime(i - 1)]
    /\ coords_valid \in [1..NumStagesA -> SUBSET PointsA]
    /\ \E n \in 0..MaxTriA : mesh_o \in [1..n -> TrianglesA]
    /\ lpc = "numpyfi"
    /\ the_first_time_step \in 0..NumStagesA
    /\ the_last_time_step \in -1..NumStagesA
    /\ LoadLocalsInit

NextAssembly ==
    \/ Numpyfi
    \/ LoadFromReturn

(***************************************************************************)
(* HDF5Exchange.DIC_Result.save_to_hdf5 / load_from_hdf5                   *)
(***************************************************************************)
NumSteps == 2       \* timesteps of the saved result
MaxScalar == 2      \* time and force values 0 .. MaxScalar

\* lines 88-105: the container, one entry per attribute, group and dataset
SaveToHdf5 ==
    /\ hpc = "save"
    /\ H5Frame
    /\ h5file' = Some([ attrs |-> saved.meta_data,
                        scalar |-> [ time |-> saved.time, force |-> saved.force ],
                        vector |-> [ strains |-> saved.strains,
                                     coordinates |-> saved.coords,
                                     node_normals |-> saved.node_normals ],
                        mesh |-> saved.mesh ])
    /\ hpc' = "load"
    /\ UNCHANGED <<saved, loaded, h_raised>>

\* lines 125-126: the two scalar datasets as load_from_hdf5 reads them
ReadScalars(h5) == [ force |-> h5.scalar.time, time |-> h5.scalar.force ]

\* lines 115-142
LoadFromHdf5 ==
    /\ hpc = "load"
    /\ H5Frame
    /\ LET h5 == Val(h5file)
           buff_meta_data == h5.attrs
           force == ReadScalars(h5).force
           time == ReadScalars(h5).time
           coords == h5.vector.coordinates
           strains == h5.vector.strains
           node_normals == Some(h5.vector.node_normals)
           m == h5.mesh
       IN  IF InitFailure(coords, m, node_normals) # None
           THEN /\ h_raised' = InitFailure(coords, m, node_normals)
                /\ hpc' = "error"
                /\ UNCHANGED loaded
           ELSE /\ loaded' = Some([DIC_Result(coords, strains, force, time, m, node_normals)
                                     EXCEPT !.meta_data = buff_meta_data])
                /\ hpc' = "loaded"
                /\ UNCHANGED h_raised
    /\ UNCHANGED <<saved, h5file>>

\* a constructed DIC_Result about to be saved
H5Start ==
    /\ \E time \in [1..NumSteps -> 0..MaxScalar], force \in [1..NumSteps -> 0..MaxScalar],
          m \in {SquarePatch, PatchWithHole} :
         LET coords == [t \in 1..NumSteps |-> [p \in 1..6 |-> Coord(t - 1, p - 1)]]
             strains == [t \in 1..NumSteps |->
                           [p \in 1..6 |-> << strains_o("eps_xx", t - 1, p - 1)[1],
                                              strains_o("eps_yy", t - 1, p - 1)[1],
                                              strains_o("eps_xy", t - 1, p - 1)[1] >>]]
         IN  saved = DIC_Result(coords, strains, force, time, m, None)
    /\ h5file = None
    /\ loaded = None
    /\ h_raised = None
    /\ hpc = "save"

NextH5 ==
    \/ SaveToHdf5
    \/ LoadFromHdf5

(***************************************************************************)
(* parsers.ARAMIS_XML_Parser.parse, lines 79-119: strain channels by name  *)
(***************************************************************************)
MaxNames == 4       \* components of the document
MaxSuffix == 2      \* letters after "eps" in a component name

\* a name is its sequence of characters
Eps == <<"e", "p", "s">>
NamePool == {Eps \o suf : suf \in UNION {[1..n -> {"X", "Y"}] : n \in 0..MaxSuffix}}

\* re.match("^.*" + pat + ".*$", name): pat occurs in name
Contains(name, pat) ==
    \E k \in 0..(Len(name) - Len(pat)) : SubSeq(name, k + 1, k + Len(pat)) = pat

re_epx_xy(name) == Contains(name, Eps \o <<"X", "Y">>)
re_eps_xx(name) == Contains(name, Eps \o <<"X">>)
re_eps_yy(name) == Contains(name, Eps \o <<"Y">>)

MatchShear(name) == re_epx_xy(name)
MatchY(name) == re_eps_yy(name)
MatchX(name) == re_eps_xx(name) /\ ~re_epx_xy(name)

\* "for i in range(3): if <match>(list_epsilon[i]): key = i; break", from index i:
\* the key found, None when the loop ends without a match, or IndexError
\* (matches[i + 1] is the outcome of the loop's test on list_epsilon[i])
RECURSIVE ScanKeys(_, _)
ScanKeys(matches, i) ==
    IF i = 3 THEN [key |-> None, exc |-> None]
    ELSE IF i >= Len(matches) THEN [key |-> None, exc |-> Some("IndexError")]
    ELSE IF matches[i + 1] THEN [key |-> Some(i), exc |-> None]
    ELSE ScanKeys(matches, i + 1)

ParseRaise(exc) ==
    /\ ppc' = "error"
    /\ p_raised' = exc

\* lines 89-92
ScanShear ==
    /\ ppc = "scan_xy"
    /\ ParseFrame
    /\ LET res == ScanKeys([k \in DOMAIN list_epsilon |-> MatchShear(list_epsilon[k])], 0)
       IN  IF res.exc # None
           THEN ParseRaise(res.exc) /\ UNCHANGED eps_xy_key
           ELSE eps_xy_key' = res.key /\ ppc' = "scan_yy" /\ UNCHANGED p_raised
    /\ UNCHANGED <<list_epsilon, eps_xx_key, eps_yy_key, strains_names>>

\* lines 94-97
ScanY ==
    /\ ppc = "scan_yy"
    /\ ParseFrame
    /\ LET res == ScanKeys([k \in DOMAIN list_epsilon |-> MatchY(list_epsilon[k])], 0)
       IN  IF res.exc # None
           THEN ParseRaise(res.exc) /\ UNCHANGED eps_yy_key
           ELSE eps_yy_key' = res.key /\ ppc' = "scan_xx" /\ UNCHANGED p_raised
    /\ UNCHANGED <<list_epsilon, eps_xx_key, eps_xy_key, strains_names>>

\* lines 99-103
ScanX ==
    /\ ppc = "scan_xx"
    /\ ParseFrame
    /\ LET res == ScanKeys([k \in DOMAIN list_epsilon |-> MatchX(list_epsilon[k])], 0)
       IN  IF res.exc # None
           THEN ParseRaise(res.exc) /\ UNCHANGED eps_xx_key
           ELSE eps_xx_key' = res.key /\ ppc' = "lookup" /\ UNCHANGED p_raised
    /\ UNCHANGED <<list_epsilon, eps_yy_key, eps_xy_key, strains_names>>

\* lines 113-119: list_epsilon[None] raises TypeError
ParseReturn ==
    /\ ppc = "lookup"
    /\ ParseFrame
    /\ IF eps_xx_key = None \/ eps_yy_key = None \/ eps_xy_key = None
       THEN ParseRaise(Some("TypeError")) /\ UNCHANGED strains_names
       ELSE /\ strains_names' = Some([ eps_xx |-> list_epsilon[Val(eps_xx_key) + 1],
                                       eps_yy |-> list_epsilon[Val(eps_yy_key) + 1],
                                       eps_xy |-> list_epsilon[Val(eps_xy_key) + 1] ])
            /\ ppc' = "returned"
            /\ UNCHANGED p_raised
    /\ UNCHANGED <<list_epsilon, eps_xx_key, eps_yy_key, eps_xy_key>>

\* the keys of comparison_surface_list, in document order: distinct names
ParseStart ==
    /\ \E n \in 0..MaxNames :
         /\ list_epsilon \in [1..n -> NamePool]
         /\ \A i, j \in 1..n : list_epsilon[i] = list_epsilon[j] => i = j
    /\ eps_xx_key = None
    /\ eps_yy_key = None
    /\ eps_xy_key = None
    /\ strains_names = None
    /\ p_raised = None
    /\ ppc = "scan_xy"

NextParse ==
    \/ ScanShear
    \/ ScanY
    \/ ScanX
    \/ ParseReturn

(***************************************************************************)
(* parsers.py binary decoders, from message_bytes on                       *)
(***************************************************************************)
MaxRec == 2         \* vertex records / triangles written into a message
MaxVersion == 3     \* versions 0 .. MaxVersion of a scalar message

LEN_INT == 4
LEN_CHAR == 1
LEN_FLOAT == 4
offset_header == 56                    \* struct.calcsize("<I6dI")
MAX_UINT == <<255, 255, 255, 255>>     \* 2 ** 32 - 1, little-endian base-256 digits

\* message_bytes[a:b]
PyBytes(m, a, b) == SubSeq(m, a + 1, Min2(b, Len(m)))

\* struct.unpack("<I", b)[0] of four bytes
UnpackI(b) == b[1] + 256 * b[2] + 65536 * b[3] + 16777216 * b[4]

\* struct.pack("<I", n), for the counts written into the messages
PackI(n) == <<n % 256, (n \div 256) % 256, (n \div 65536) % 256, n \div 16777216>>

LogStrain == <<108, 111, 103, 95, 115, 116, 114, 97, 105, 110>>   \* 'log_strain'

\* m with key k set to v
DictSet(m, k, v) == [x \in (DOMAIN m) \cup {k} |-> IF x = k THEN v ELSE m[x]]

DecRaise(exc) ==
    /\ dpc' = "error"
    /\ d_raised' = Some(exc)

\* lines 278-291 and 332-343: the three branches on the valid byte
ValidLenientMutant(valid) == IF valid = 1 THEN "valid" ELSE "skip"

ValidCase(valid) ==
    IF valid = 1 THEN "valid" ELSE IF valid = 0 THEN "skip" ELSE "raise"

\* ---- read_surface_component_scalar ----
\* lines 256-273: the header fields, or the struct.error of a short slice
ScalarHeader(m) ==
    LET bad == [ok |-> FALSE]
        v_b == PyBytes(m, 0, LEN_INT)
        v == UnpackI(v_b)
        off1 == LEN_INT
        len_b == PyBytes(m, off1, off1 + LEN_INT)
        len_string == UnpackI(len_b)
        off2 == off1 + LEN_INT
        name_b == PyBytes(m, off2, off2 + len_string * LEN_CHAR)
        off3 == IF v >= 1 THEN off2 + len_string * LEN_CHAR ELSE off1
        n_b == PyBytes(m, off3, off3 + LEN_INT)
        off4 == off3 + LEN_INT
        f_b == PyBytes(m, off4, off4 + LEN_CHAR)
    IN  IF Len(v_b) # LEN_INT THEN bad
        ELSE IF v >= 1 /\ Len(len_b) # LEN_INT THEN bad
        ELSE IF v >= 1 /\ Len(name_b) # len_string THEN bad
        ELSE IF Len(n_b) # LEN_INT THEN bad
        ELSE IF v >= 2 /\ Len(f_b) # LEN_CHAR THEN bad
        ELSE [ ok |-> TRUE,
               version |-> v,
               unit_name |-> IF v >= 1 THEN Some(name_b) ELSE None,
               n_vertices |-> UnpackI(n_b),
               dire_vect_flag |-> IF v >= 2 THEN f_b[1] ELSE 0,
               off |-> IF v >= 2 THEN off4 + LEN_CHAR ELSE off4 ]

ScalarStart ==
    /\ dpc = "call" /\ decoder = "scalar"
    /\ DecFrame
    /\ LET h == ScalarHeader(message_bytes)
       IN  IF ~h.ok
           THEN /\ DecRaise("struct.error")
                /\ UNCHANGED <<version, unit_name, n_vertices, dire_vect_flag, off>>
           ELSE /\ version' = Some(h.version)
                /\ unit_name' = h.unit_name
                /\ n_vertices' = Some(h.n_vertices)
                /\ dire_vect_flag' = h.dire_vect_flag
                /\ off' = h.off
                /\ dpc' = "loop"
                /\ UNCHANGED d_raised
    /\ UNCHANGED <<decoder, payload, message_bytes, d_i, indexes, buff_scalar, buff_vector,
                   min_corner, max_corner, vertices_cords_i, d_result>>

\* lines 278-291: one pass of "for i in range(n_vertices)"
ScalarRecord ==
    /\ dpc = "loop" /\ decoder = "scalar"
    /\ d_i < Val(n_vertices)
    /\ DecFrame
    /\ LET valid_b == PyBytes(message_bytes, off, off + LEN_CHAR)
           off1 == off + LEN_CHAR
           s_b == PyBytes(message_bytes, off1, off1 + LEN_FLOAT)
           off2 == off1 + LEN_FLOAT
           v_b == PyBytes(message_bytes, off2, off2 + 3 * LEN_FLOAT)
           stay == UNCHANGED <<indexes, buff_scalar, buff_vector, off, d_i>>
       IN  IF Len(valid_b) # LEN_CHAR THEN DecRaise("struct.error") /\ stay
           ELSE IF ValidCase(valid_b[1]) = "raise" THEN DecRaise("RuntimeError") /\ stay
           ELSE IF ValidCase(valid_b[1]) = "skip"
           THEN /\ off' = off1
                /\ d_i' = d_i + 1
                /\ UNCHANGED <<indexes, buff_scalar, buff_vector, dpc, d_raised>>
           ELSE IF Len(s_b) # LEN_FLOAT THEN DecRaise("struct.error") /\ stay
           ELSE IF dire_vect_flag = 1 /\ Len(v_b) # 3 * LEN_FLOAT
           THEN DecRaise("struct.error") /\ stay
           ELSE /\ indexes' = Append(indexes, d_i)
                /\ buff_scalar' = DictSet(buff_scalar, d_i, <<s_b>>)
                /\ buff_vector' = IF dire_vect_flag = 1
                                  THEN DictSet(buff_vector, d_i,
                                               << SubSeq(v_b, 1, 4), SubSeq(v_b, 5, 8),
                                                  SubSeq(v_b, 9, 12) >>)
                                  ELSE buff_vector
                /\ off' = IF dire_vect_flag = 1 THEN off2 + 3 * LEN_FLOAT ELSE off2
                /\ d_i' = d_i + 1
                /\ UNCHANGED <<dpc, d_raised>>
    /\ UNCHANGED <<decoder, payload, message_bytes, version, unit_name, n_vertices,
                   dire_vect_flag, min_corner, max_corner, vertices_cords_i, d_result>>

\* lines 293-299: the warning concatenates unit_name, which is None for version 0
ScalarReturn ==
    /\ dpc = "loop" /\ decoder = "scalar"
    /\ d_i >= Val(n_vertices)
    /\ DecFrame
    /\ IF unit_name = None
       THEN DecRaise("TypeError") /\ UNCHANGED d_result
       ELSE /\ d_result' = Some([ scalar |-> buff_scalar,
                                  vector |-> IF dire_vect_flag = 1
                                             THEN Some(buff_vector) ELSE None ])
            /\ dpc' = "returned"
            /\ UNCHANGED d_raised
    /\ UNCHANGED <<decoder, payload, message_bytes, off, d_i, version, unit_name, n_vertices,
                   dire_vect_flag, indexes, buff_scalar, buff_vector, min_corner, max_corner,
                   vertices_cords_i>>

\* ---- read_surface_component_vertices ----
\* the i-th (0-based) 8-byte float of the header
HeaderDouble(m, i) == SubSeq(m, LEN_INT + 8 * i + 1, LEN_INT + 8 * i + 8)

\* lines 322-328
VerticesStart ==
    /\ dpc = "call" /\ decoder = "vertices"
    /\ DecFrame
    /\ LET head == PyBytes(message_bytes, 0, offset_header)
       IN  IF Len(head) # offset_header
           THEN /\ DecRaise("struct.error")
                /\ UNCHANGED <<min_corner, max_corner, n_vertices, off>>
           ELSE /\ min_corner' = Some(<< HeaderDouble(head, 0), HeaderDouble(head, 1),
                                         HeaderDouble(head, 2) >>)
                /\ max_corner' = Some(<< HeaderDouble(head, 3), HeaderDouble(head, 4),
                                         HeaderDouble(head, 5) >>)
                /\ n_vertices' = Some(UnpackI(SubSeq(head, 53, 56)))
                /\ off' = offset_header
                /\ dpc' = "loop"
                /\ UNCHANGED d_raised
    /\ UNCHANGED <<decoder, payload, message_bytes, d_i, version, unit_name, dire_vect_flag,
                   indexes, buff_scalar, buff_vector, vertices_cords_i, d_result>>

\* lines 331-343: one pass of "for i in range(n_vertices)"
VerticesRecord ==
    /\ dpc = "loop" /\ decoder = "vertices"
    /\ d_i < Val(n_vertices)
    /\ DecFrame
    /\ LET valid_b == PyBytes(message_bytes, off, off + 1)
           off1 == off + 1
           r_b == PyBytes(message_bytes, off1, off1 + 12)
           stay == UNCHANGED <<indexes, vertices_cords_i, off, d_i>>
       IN  IF Len(valid_b) # 1 THEN DecRaise("struct.error") /\ stay
           ELSE IF ValidCase(valid_b[1]) = "raise" THEN DecRaise("RuntimeError") /\ stay
           ELSE IF ValidCase(valid_b[1]) = "skip"
           THEN /\ off' = off1
                /\ d_i' = d_i + 1
                /\ UNCHANGED <<indexes, vertices_cords_i, dpc, d_raised>>
           ELSE IF Len(r_b) # 12 THEN DecRaise("struct.error") /\ stay
           ELSE /\ indexes' = Append(indexes, d_i)
                /\ vertices_cords_i' = Append(vertices_cords_i,
                                              << SubSeq(r_b, 1, 4), SubSeq(r_b, 5, 8),
                                                 SubSeq(r_b, 9, 12) >>)
                /\ off' = off1 + 3 * LEN_INT
                /\ d_i' = d_i + 1
                /\ UNCHANGED <<dpc, d_raised>>
    /\ UNCHANGED <<decoder, payload, message_bytes, version, unit_name, n_vertices,
                   dire_vect_flag, buff_scalar, buff_vector, min_corner, max_corner,
                   d_result>>

\* lines 349-352: (max_corner[i] - min_corner[i]) * (raw / MAX_UINT) + min_corner[i],
\* kept as the expression over the decoded operands
Dequantize(lo, hi, raw) ==
    [ scale |-> [minuend |-> hi, subtrahend |-> lo],
      ratio |-> [num |-> raw, den |-> MAX_UINT],
      shift |-> lo ]

\* lines 345-358: vertices_cords_f[:, i] needs a 2-d array, which
\* np.array([]) / MAX_UINT is not
VerticesReturn ==
    /\ dpc = "loop" /\ decoder = "vertices"
    /\ d_i >= Val(n_vertices)
    /\ DecFrame
    /\ IF off # Len(message_bytes)
       THEN DecRaise("RuntimeError") /\ UNCHANGED d_result
       ELSE IF Val(n_vertices) # 0 /\ vertices_cords_i = <<>>
       THEN DecRaise("IndexError") /\ UNCHANGED d_result
       ELSE /\ d_result' =
                Some([k \in Range(indexes) |->
                        LET i == ListIndex(indexes, k) + 1
                        IN  [a \in 1..3 |-> Dequantize(Val(min_corner)[a], Val(max_corner)[a],
                                                       vertices_cords_i[i][a])]])
            /\ dpc' = "returned"
            /\ UNCHANGED d_raised
    /\ UNCHANGED <<decoder, payload, message_bytes, off, d_i, version, unit_name, n_vertices,
                   dire_vect_flag, indexes, buff_scalar, buff_vector, min_corner, max_corner,
                   vertices_cords_i>>

\* ---- read_surface_component_triangles ----
\* line 308: int((len_chain - 2 * LEN_INT) / (3 * LEN_INT)) truncates toward zero
NTriangle(len_chain) ==
    IF len_chain >= 2 * LEN_INT THEN (len_chain - 2 * LEN_INT) \div (3 * LEN_INT) ELSE 0

\* the k-th (0-based) uint32 of struct.unpack("<II...I", message_bytes)
TriangleUnpack(m, k) == UnpackI(SubSeq(m, 4 * k + 1, 4 * k + 4))

\* lines 303-316; off marks the end of the last triple the loop read
TrianglesDecode ==
    /\ dpc = "call" /\ decoder = "triangles"
    /\ DecFrame
    /\ LET len_chain == Len(message_bytes)
           n_triangle == NTriangle(len_chain)
           count == TriangleUnpack(message_bytes, 1)
       IN  IF len_chain # 2 * LEN_INT + 3 * n_triangle * LEN_INT
           THEN DecRaise("struct.error") /\ UNCHANGED <<d_result, off>>
           ELSE IF count > n_triangle
           THEN DecRaise("IndexError") /\ UNCHANGED <<d_result, off>>
           ELSE /\ d_result' = Some([i \in 1..count |->
                                       << TriangleUnpack(message_bytes, 2 + (i - 1) * 3),
                                          TriangleUnpack(message_bytes, 2 + (i - 1) * 3 + 1),
                                          TriangleUnpack(message_bytes, 2 + (i - 1) * 3 + 2) >>])
                /\ off' = 2 * LEN_INT + 3 * count * LEN_INT
                /\ dpc' = "returned"
                /\ UNCHANGED d_raised
    /\ UNCHANGED <<decoder, payload, message_bytes, d_i, version, unit_name, n_vertices,
                   dire_vect_flag, indexes, buff_scalar, buff_vector, min_corner, max_corner,
                   vertices_cords_i>>

\* ---- the messages decoded ----
RECURSIVE Concat(_)
Concat(ss) == IF ss = <<>> THEN <<>> ELSE Head(ss) \o Concat(Tail(ss))

SeqsUpTo(S, n) == UNION {[1..k -> S] : k \in 0..n}

Float1 == <<0, 0, 128, 63>>                 \* 1.0 as "<f"
Float2 == <<0, 0, 0, 64>>                   \* 2.0 as "<f"
Double0 == <<0, 0, 0, 0, 0, 0, 0, 0>>       \* 0.0 as "<d"
Double1 == <<0, 0, 0, 0, 0, 0, 240, 63>>    \* 1.0 as "<d"
Double2 == <<0, 0, 0, 0, 0, 0, 0, 64>>      \* 2.0 as "<d"
RawZero == <<0, 0, 0, 0>>
RawOne == <<1, 0, 0, 0>>

UnitNames == {LogStrain, <<>>, <<109, 109>>}     \* 'log_strain', '', 'mm'
Paddings == {<<>>, <<0>>}                        \* bytes after the last record
DeclaredCounts(recs) == {n \in (Len(recs) - 1)..(Len(recs) + 1) : n >= 0}

ScalarRecords ==
    {[valid |-> 0], [valid |-> 2]}
    \cup {[valid |-> 1, scalar |-> f, vector |-> <<Float1, Float2, f>>] : f \in {Float1, Float2}}

ScalarPayloads ==
    {p \in [ version : 0..MaxVersion, unit : UnitNames, flag : 0..2,
             recs : SeqsUpTo(ScalarRecords, MaxRec), declared : 0..(MaxRec + 1),
             extra : Paddings ] :
        /\ p.version = 0 => p.unit = <<>>
        /\ p.version < 2 => p.flag = 0
        /\ p.declared \in DeclaredCounts(p.recs)}

EncodeScalarRecord(rec, flag) ==
    <<rec.valid>>
    \o (IF rec.valid = 1
        THEN rec.scalar \o (IF flag = 1 THEN Concat(rec.vector) ELSE <<>>)
        ELSE <<>>)

EncodeScalar(p) ==
    PackI(p.version)
    \o (IF p.version >= 1 THEN PackI(Len(p.unit)) \o p.unit ELSE <<>>)
    \o PackI(p.declared)
    \o (IF p.version >= 2 THEN <<p.flag>> ELSE <<>>)
    \o Concat([i \in DOMAIN p.recs |-> EncodeScalarRecord(p.recs[i], p.flag)])
    \o p.extra

VertexRecords ==
    {[valid |-> 0], [valid |-> 2]}
    \cup {[valid |-> 1, raw |-> r] : r \in {<<RawZero, MAX_UINT, RawOne>>,
                                           <<MAX_UINT, RawOne, RawZero>>}}

VertexPayloads ==
    {p \in [ version : {0}, min_corner : {<<Double0, Double1, Double2>>},
             max_corner : {<<Double1, Double2, Double2>>, <<Double2, Double2, Double0>>},
             recs : SeqsUpTo(VertexRecords, MaxRec), declared : 0..(MaxRec + 1),
             extra : Paddings ] :
        p.declared \in DeclaredCounts(p.recs)}

EncodeVertexRecord(rec) ==
    <<rec.valid>> \o (IF rec.valid = 1 THEN Concat(rec.raw) ELSE <<>>)

EncodeVertices(p) ==
    PackI(p.version) \o Concat(p.min_corner) \o Concat(p.max_corner) \o PackI(p.declared)
    \o Concat([i \in DOMAIN p.recs |-> EncodeVertexRecord(p.recs[i])])
    \o p.extra

TrianglePayloads ==
    {p \in [ reserved : {0}, recs : SeqsUpTo({<<0, 1, 2>>, <<2, 1, 3>>, <<300, 4, 5>>}, MaxRec),
             declared : 0..(MaxRec + 1), extra : Paddings \cup {RawZero} ] :
        p.declared \in DeclaredCounts(p.recs)}

EncodeTriangles(p) ==
    PackI(p.reserved) \o PackI(p.declared)
    \o Concat([i \in DOMAIN p.recs |->
                 PackI(p.recs[i][1]) \o PackI(p.recs[i][2]) \o PackI(p.recs[i][3])])
    \o p.extra

DecodeLocalsInit ==
    /\ off = 0
    /\ d_i = 0
    /\ version = None
    /\ unit_name = None
    /\ n_vertices = None
    /\ dire_vect_flag = 0
    /\ indexes = <<>>
    /\ buff_scalar = <<>>
    /\ buff_vector = <<>>
    /\ min_corner = None
    /\ max_corner = None
    /\ vertices_cords_i = <<>>
    /\ d_result = None
    /\ d_raised = None
    /\ dpc = "call"

DecodeStart ==
    /\ \/ \E p \in ScalarPayloads :
            decoder = "scalar" /\ payload = p /\ message_bytes = EncodeScalar(p)
       \/ \E p \in VertexPayloads :
            decoder = "vertices" /\ payload = p /\ message_bytes = EncodeVertices(p)
       \/ \E p \in TrianglePayloads :
            decoder = "triangles" /\ payload = p /\ message_bytes = EncodeTriangles(p)
    /\ DecodeLocalsInit

NextDecode ==
    \/ ScalarStart
    \/ ScalarRecord
    \/ ScalarReturn
    \/ VerticesStart
    \/ VerticesRecord
    \/ VerticesReturn
    \/ TrianglesDecode

(***************************************************************************)
(* HDF5Exchange.DIC_Result.rotate                                          *)
(***************************************************************************)
NumRotSteps == 1    \* timesteps of the rotated result
NumRotPts == 1      \* points of the rotated result

\* a float is <<x>> for the number x, NaN is the float that is no number
NaN == <<>>
Fl(x) == <<x>>
FAdd(a, b) == IF a = NaN \/ b = NaN THEN NaN ELSE Fl(a[1] + b[1])
FSub(a, b) == IF a = NaN \/ b = NaN THEN NaN ELSE Fl(a[1] - b[1])
FMul(a, b) == IF a = NaN \/ b = NaN THEN NaN ELSE Fl(a[1] * b[1])

\* a component of a vector divided by the norm n of that vector: 0 / 0 is NaN
FDivNorm(a, n) == IF a = NaN \/ n = NaN \/ n[1] = 0 THEN NaN ELSE Fl(a[1] \div n[1])

\* np.sign
Sign(a) == IF a = NaN THEN NaN ELSE IF a[1] > 0 THEN Fl(1) ELSE IF a[1] < 0 THEN Fl(-1) ELSE Fl(0)

FSum(v) == FAdd(FAdd(v[1], v[2]), v[3])

\* np.cross(a, b, axis=-1)
Cross(a, b) ==
    << FSub(FMul(a[2], b[3]), FMul(a[3], b[2])),
       FSub(FMul(a[3], b[1]), FMul(a[1], b[3])),
       FSub(FMul(a[1], b[2]), FMul(a[2], b[1])) >>

\* np.einsum("...i, ...i -> ...", a, b)
Dot(a, b) == FSum(<<FMul(a[1], b[1]), FMul(a[2], b[2]), FMul(a[3], b[3])>>)

\* np.einsum("...i, ...j -> ...", a, b): every product a[i] * b[j], summed
OuterSum(a, b) == FSum([i \in 1..3 |-> FSum([j \in 1..3 |-> FMul(a[i], b[j])])])

\* np.linalg.norm(v, axis=-1), for the vectors met here (squared norm 0 or 1)
Norm(v) ==
    LET q == Dot(v, v)
    IN  IF q = NaN THEN NaN ELSE Fl(CHOOSE r \in 0..q[1] : r * r = q[1])

\* np.einsum("ik, ...k -> ...i", matrix, v)
MatVec(mat, v) == [i \in 1..3 |-> FSum([k \in 1..3 |-> FMul(Fl(mat[i][k]), v[k])])]

\* lines 214-218
OldAxis(normal) ==
    LET c == Cross(normal, <<Fl(0), Fl(1), Fl(0)>>)
        norm_old_e_x == Norm(c)
    IN  [k \in 1..3 |-> FDivNorm(c[k], norm_old_e_x)]

\* line 224: the sign given to sin_th
SgnDotMutant(cp, normal) == Sign(Dot(cp, normal))

SgnTh(cp, normal) == Sign(OuterSum(cp, normal))

Sq(a) == FMul(a, a)

\* lines 227-237
RotateStrain(e, c, s) ==
    << FAdd(FAdd(FMul(e[1], Sq(c)), FMul(e[2], Sq(s))), FMul(FMul(e[3], s), c)),
       FSub(FAdd(FMul(e[1], Sq(s)), FMul(e[2], Sq(c))), FMul(FMul(e[3], s), c)),
       FAdd(FMul(FMul(FMul(Fl(2), FSub(e[1], e[2])), s), c),
            FMul(e[3], FSub(Sq(c), Sq(s)))) >>

\* lines 209-240
Rotate ==
    /\ rpc = "call"
    /\ RotFrame
    /\ LET self == Val(rot_self)
           T == DOMAIN self.coords
           P == DOMAIN self.coords[1]
           o == [t \in T |-> [p \in P |-> OldAxis(self.node_normals[t][p])]]
           n == [t \in T |-> [p \in P |-> MatVec(Val(matrix), o[t][p])]]
           c == [t \in T |-> [p \in P |-> Dot(o[t][p], n[t][p])]]
           cp == [t \in T |-> [p \in P |-> Cross(o[t][p], n[t][p])]]
           sg == [t \in T |-> [p \in P |-> SgnTh(cp[t][p], self.node_normals[t][p])]]
           s == [t \in T |-> [p \in P |-> FMul(Norm(cp[t][p]), sg[t][p])]]
       IN  /\ old_e_x' = Some(o)
           /\ new_e_x' = Some(n)
           /\ cos_th' = Some(c)
           /\ cp_e_x' = Some(cp)
           /\ sgn_th' = Some(sg)
           /\ sin_th' = Some(s)
           /\ rot_out' = Some([self EXCEPT
                  !.coords = [t \in T |-> [p \in P |-> MatVec(Val(matrix), self.coords[t][p])]],
                  !.strains = [t \in T |-> [p \in P |->
                                 RotateStrain(self.strains[t][p], c[t][p], s[t][p])]],
                  !.node_normals = [t \in T |-> [p \in P |->
                                      MatVec(Val(matrix), self.node_normals[t][p])]]])
    /\ rpc' = "done"
    /\ UNCHANGED <<rot_self, matrix>>

\* rotation matrices with entries -1, 0, 1: the 24 rotations of the cube
Det(mat) ==
    mat[1][1] * (mat[2][2] * mat[3][3] - mat[2][3] * mat[3][2])
    - mat[1][2] * (mat[2][1] * mat[3][3] - mat[2][3] * mat[3][1])
    + mat[1][3] * (mat[2][1] * mat[3][2] - mat[2][2] * mat[3][1])

Rotations ==
    {mat \in [1..3 -> [1..3 -> -1..1]] :
        /\ \A i \in 1..3 : Cardinality({k \in 1..3 : mat[i][k] # 0}) = 1
        /\ \A k \in 1..3 : Cardinality({i \in 1..3 : mat[i][k] # 0}) = 1
        /\ Det(mat) = 1}

Identity == [i \in 1..3 |-> [k \in 1..3 |-> IF i = k THEN 1 ELSE 0]]

\* normals n for which the norm of n x Y is 0 or 1
Normals ==
    {[k \in 1..3 |-> Fl(v[k])] :
        v \in {w \in [1..3 -> -1..1] : w # <<0, 0, 0>> /\ w[1] * w[1] + w[3] * w[3] <= 1}}

StrainRows == {<<Fl(1), Fl(2), Fl(3)>>, <<Fl(2), Fl(1), Fl(0)>>}

\* a DIC_Result built with its node normals given
RotateStart ==
    /\ \E normals \in [1..NumRotSteps -> [1..NumRotPts -> Normals]],
          strains \in [1..NumRotSteps -> [1..NumRotPts -> StrainRows]] :
         rot_self = Some(DIC_Result([t \in 1..NumRotSteps |->
                                       [p \in 1..NumRotPts |-> <<Fl(p), Fl(t), Fl(3)>>]],
                                    strains,
                                    [t \in 1..NumRotSteps |-> t],
                                    [t \in 1..NumRotSteps |-> RelTime(t - 1)],
                                    SquarePatch, Some(normals)))
    /\ matrix \in {Some(mat) : mat \in Rotations}
    /\ old_e_x = None
    /\ new_e_x = None
    /\ cos_th = None
    /\ cp_e_x = None
    /\ sgn_th = None
    /\ sin_th = None
    /\ rot_out = None
    /\ rpc = "call"

NextRotate == Rotate

(***************************************************************************)
(* mesh_utils.node_surface_normal, lines 17-39: the point list of a node   *)
(***************************************************************************)
NumVertN == 5       \* nodes 0 .. NumVertN-1, coords.shape[1]
MaxTriN == 2        \* triangles of the mesh

\* np.unique: the members in increasing order
SortSet(S) ==
    CHOOSE q \in Orderings(S) : \A i, j \in DOMAIN q : i < j => q[i] < q[j]

\* lines 22-23: np.unique(mesh[is_in_el]), is_in_el the rows that hold a_node
NodeConnection(m, a_node) ==
    LET is_in_el == {e \in DOMAIN m : a_node \in Range(m[e])}
    IN  SortSet(UNION {Range(m[e]) : e \in is_in_el})

\* lines 18-25
NormalConnections ==
    /\ npc = "call"
    /\ NormFrame
    /\ node_connection' = [a_node \in 0..(n_node - 1) |-> NodeConnection(n_mesh, a_node)]
    /\ i_node' = 0
    /\ npc' = "points"
    /\ UNCHANGED <<n_mesh, n_node, points>>

\* lines 29-39: one pass of "for i_node in range(n_node)"; the point list holds
\* the coordinates of these nodes, in this order
NormalPoints ==
    /\ npc = "points"
    /\ i_node < n_node
    /\ NormFrame
    /\ points' = Append(points, <<i_node>> \o node_connection[i_node])
    /\ i_node' = i_node + 1
    /\ UNCHANGED <<n_mesh, n_node, node_connection, npc>>

\* lines 41-51
NormalReturn ==
    /\ npc = "points"
    /\ i_node >= n_node
    /\ NormFrame
    /\ npc' = "returned"
    /\ UNCHANGED <<n_mesh, n_node, node_connection, i_node, points>>

NormalStart ==
    /\ \E k \in 1..MaxTriN :
         n_mesh \in [1..k -> {tri \in [1..3 -> 0..(NumVertN - 1)] :
                                tri[1] < tri[2] /\ tri[2] < tri[3]}]
    /\ n_node = NumVertN
    /\ node_connection = <<>>
    /\ i_node = 0
    /\ points = <<>>
    /\ npc = "call"

NextNormal ==
    \/ NormalConnections
    \/ NormalPoints
    \/ NormalReturn

(***************************************************************************)
(* Specifications                                                          *)
(***************************************************************************)
H5Idle ==
    /\ saved = None
    /\ h5file = None
    /\ loaded = None
    /\ h_raised = None
    /\ hpc = "idle"

ParseIdle ==
    /\ list_epsilon = <<>>
    /\ eps_xx_key = None
    /\ eps_yy_key = None
    /\ eps_xy_key = None
    /\ strains_names = None
    /\ p_raised = None
    /\ ppc = "idle"

DecIdle ==
    /\ decoder = "none"
    /\ payload = None
    /\ message_bytes = <<>>
    /\ off = 0
    /\ d_i = 0
    /\ version = None
    /\ unit_name = None
    /\ n_vertices = None
    /\ dire_vect_flag = 0
    /\ indexes = <<>>
    /\ buff_scalar = <<>>
    /\ buff_vector = <<>>
    /\ min_corner = None
    /\ max_corner = None
    /\ vertices_cords_i = <<>>
    /\ d_result = None
    /\ d_raised = None
    /\ dpc = "idle"

RotIdle ==
    /\ rot_self = None
    /\ matrix = None
    /\ old_e_x = None
    /\ new_e_x = None
    /\ cos_th = None
    /\ cp_e_x = None
    /\ sgn_th = None
    /\ sin_th = None
    /\ rot_out = None
    /\ rpc = "idle"

NormIdle ==
    /\ n_mesh = <<>>
    /\ n_node = 0
    /\ node_connection = <<>>
    /\ i_node = 0
    /\ points = <<>>
    /\ npc = "idle"

\* the components a specification does not run
RestIdle == DecIdle /\ RotIdle /\ NormIdle

\* DIC_Result._init_mesh_property, set_mesh and has_mesh_hole
InitMesh == MeshStart /\ LoadIdle /\ H5Idle /\ ParseIdle /\ RestIdle

SpecMesh == InitMesh /\ [][NextMesh]_vars

\* mesh_boundaries alone
InitBoundaries == BoundariesStart /\ LoadIdle /\ H5Idle /\ ParseIdle /\ RestIdle

SpecBoundaries == InitBoundaries /\ [][NextBoundaries]_vars

\* one call of mesh_holes, run to its end: a started call keeps executing
NextHoles ==
    \/ MeshHolesEnter
    \/ MeshHolesFallOff
    \/ MeshHolesSeed
    \/ MeshHolesForStep
    \/ MeshHolesForEnd
    \/ MeshHolesNextPass
    \/ MeshHolesReturn

\* the meshes of the terminating walks: triangles with three distinct vertices
IsMeshH(m) ==
    \E n \in 0..MaxTriH :
        m \in [1..n -> {tri \in [1..3 -> 0..(NumVertH - 1)] :
                          tri[1] < tri[2] /\ tri[2] < tri[3]}]

HolesStart ==
    /\ IsMeshH(mesh)
    /\ pc = "call"
    /\ caller = "function"
    /\ MeshLocalsInit

InitHoles == HolesStart /\ LoadIdle /\ H5Idle /\ ParseIdle /\ RestIdle

SpecHoles == InitHoles /\ [][NextHoles]_vars /\ WF_vars(NextHoles)

\* load_from from line 33 to its end
InitWindow == WindowStart /\ MeshIdle /\ H5Idle /\ ParseIdle /\ RestIdle

SpecWindow == InitWindow /\ [][NextWindow]_vars

\* load_from from line 33 to line 49: the rupture-ratio block
NextRupture ==
    \/ WindowInit
    \/ WindowLast
    \/ WindowFirst
    \/ WindowRupture
    \/ WindowRuptureOffset

SpecRupture == InitWindow /\ [][NextRupture]_vars

\* load_from from line 75 to its end
InitAssembly == AssemblyStart /\ MeshIdle /\ H5Idle /\ ParseIdle /\ RestIdle

SpecAssembly == InitAssembly /\ [][NextAssembly]_vars

\* save_to_hdf5 followed by load_from_hdf5
InitH5 == H5Start /\ MeshIdle /\ LoadIdle /\ ParseIdle /\ RestIdle

SpecH5 == InitH5 /\ [][NextH5]_vars

\* the channel resolution of ARAMIS_XML_Parser.parse
InitParse == ParseStart /\ MeshIdle /\ LoadIdle /\ H5Idle /\ RestIdle

SpecParse == InitParse /\ [][NextParse]_vars

\* the three binary decoders, each on its own messages
InitDecode == DecodeStart /\ MeshIdle /\ LoadIdle /\ H5Idle /\ ParseIdle /\ RotIdle /\ NormIdle

SpecDecode == InitDecode /\ [][NextDecode]_vars

\* DIC_Result.rotate
InitRotate == RotateStart /\ MeshIdle /\ LoadIdle /\ H5Idle /\ ParseIdle /\ DecIdle /\ NormIdle

SpecRotate == InitRotate /\ [][NextRotate]_vars

\* node_surface_normal up to its point lists
InitNormal == NormalStart /\ MeshIdle /\ LoadIdle /\ H5Idle /\ ParseIdle /\ DecIdle /\ RotIdle

SpecNormal == InitNormal /\ [][NextNormal]_vars

(***************************************************************************)
(* Reference notions of mesh topology, stated on the triangle list         *)
(***************************************************************************)
\* occurrences of the unordered pair e as an edge of a triangle of m
EdgeCount(m, e) ==
    Cardinality({ik \in (DOMAIN m) \X (1..3) : half_edges(m[ik[1]])[ik[2]] = e})

AllEdges(m) == {half_edges(m[i])[k] : i \in DOMAIN m, k \in 1..3}

OddEdges(m) == {e \in AllEdges(m) : EdgeCount(m, e) % 2 = 1}

NoDuplicates(list) ==
    \A i, j \in DOMAIN list : list[i] = list[j] => i = j

Degree(B, v) == Cardinality({e \in B : v \in e})

\* the edges of B form vertex-disjoint closed cycles: every vertex lies on two edges
DisjointCycles(B) ==
    /\ \A e \in B : Cardinality(e) = 2
    /\ \A v \in UNION B : Degree(B, v) = 2

RECURSIVE Grow(_, _)
Grow(S, B) ==
    LET S2 == S \cup UNION {e \in B : e \cap S # {}}
    IN  IF S2 = S THEN S ELSE Grow(S2, B)

\* number of connected components of the graph B, i.e. of closed loops
CycleCount(B) == Cardinality({Grow({v}, B) : v \in UNION B})

LoopEdges(loop) == {{loop[i][1], loop[i][2]} : i \in DOMAIN loop}

(***************************************************************************)
(* Claims                                                                  *)
(***************************************************************************)

\* C1 (as claimed): when the boundary edges of the mesh form k >= 1
\* vertex-disjoint closed cycles, mesh_holes returns exactly k loops and every
\* boundary edge belongs to exactly one returned loop.
C1_AllLoopsReturned ==
    (pc = "return" /\ DisjointCycles(OddEdges(mesh)) /\ CycleCount(OddEdges(mesh)) >= 1)
    => /\ result.kind = "list"
       /\ Len(result.loops) = CycleCount(OddEdges(mesh))
       /\ \A e \in OddEdges(mesh) :
             Cardinality({i \in DOMAIN result.loops : e \in LoopEdges(result.loops[i])}) = 1

\* C2 (as claimed): once _init_mesh_property has run, has_mesh_holes is true
\* exactly when the boundary edges of the current mesh form more than one closed
\* loop, and has_mesh_hole(mesh) returns the same value.
C2_HasHolesIffSeveralLoops ==
    (pc = "ready" /\ DisjointCycles(OddEdges(mesh)))
    => /\ has_mesh_holes = Some(CycleCount(OddEdges(mesh)) > 1)
       /\ fn_result # None => fn_result = has_mesh_holes

\* C3: mesh_boundaries returns, without duplicates, exactly the unordered vertex
\* pairs that occur as a triangle edge an odd number of times.
C3_BoundariesAreOddEdges ==
    pc = "boundaries_done"
    => /\ NoDuplicates(unique_half_edges)
       /\ Range(unique_half_edges) = OddEdges(mesh)

\* C3 witness: two triangles sharing exactly one edge have been processed; the
\* shared edge is dropped and an edge of a single triangle is kept.
C3_Witness ==
    /\ pc = "boundaries_done"
    /\ Len(mesh) = 2
    /\ \E e \in AllEdges(mesh) : EdgeCount(mesh, e) = 2 /\ e \notin Range(unique_half_edges)
    /\ \E e \in AllEdges(mesh) : EdgeCount(mesh, e) = 1 /\ e \in Range(unique_half_edges)

(***************************************************************************)
(* Reference notions of assembly and windowing                             *)
(***************************************************************************)
Assembled == lpc \in {"construct", "returned"}

\* vertex indices present in the vertex-geometry stream of every stage of q
InEveryStage(q) ==
    {v \in UNION Range(coords_valid) : \A t \in DOMAIN q : v \in coords_valid[q[t] + 1]}

SeqPermutations(q) ==
    {[i \in 1..Len(q) |-> q[r[i]]] : r \in Orderings(1..Len(q))}

AllRetained(el) == {el[1], el[2], el[3]} \subseteq Range(element_set)

KeptTriangles == SelectSeq(mesh_o, AllRetained)

\* position (0-based) of original vertex v in the compacted vertex order
PositionOf(v) == (CHOOSE j \in DOMAIN element_set : element_set[j] = v) - 1

\* i is the last stage index whose force reaches ratio * max(force)
IsLastAbove(i, ratio) ==
    LET reaches(j) == force_values[j + 1] * ratio[2] >= ratio[1] * SetMax(Range(force_values))
    IN  /\ i \in 0..(Len(force_values) - 1)
        /\ reaches(i)
        /\ \A j \in (i + 1)..(Len(force_values) - 1) : ~reaches(j)

\* C4 (as claimed): in the result load_from returns, strains[t][p] is
\* (e_xx, e_yy, e_xy) of the stage of t and the original vertex of p; the third
\* component is the shear channel's value.
C4_StrainsAreXxYyXy ==
    lpc = "returned"
    => \A t \in DOMAIN list_stage, p \in DOMAIN element_set :
         Val(dic).strains[t][p] =
            << strains_o("eps_xx", list_stage[t], element_set[p])[1],
               strains_o("eps_yy", list_stage[t], element_set[p])[1],
               strains_o("eps_xy", list_stage[t], element_set[p])[1] >>

\* C5: the compacted mesh holds, in their original relative order, exactly the
\* triangles whose three original vertices are all retained, each index rewritten
\* to the position of that vertex in the compacted vertex order (the row of the
\* coordinate tensor that holds this vertex), so 0 <= index < point count.
C5_CompactedMesh ==
    Assembled
    => /\ Len(mesh_a) = Len(KeptTriangles)
       /\ \A k \in DOMAIN mesh_a, i \in 1..3 :
            /\ mesh_a[k][i] = PositionOf(KeptTriangles[k][i])
            /\ mesh_a[k][i] >= 0
            /\ mesh_a[k][i] < Len(element_set)
            /\ \A t \in DOMAIN list_stage :
                 coords_a[t][mesh_a[k][i] + 1] = Coord(list_stage[t], KeptTriangles[k][i])

\* C5 witness: of two triangles one references a dropped vertex and is discarded,
\* the other is kept with its indices rewritten to other numbers.
C5_Witness ==
    /\ Assembled
    /\ Len(mesh_o) = 2
    /\ Len(mesh_a) = 1
    /\ ~AllRetained(mesh_o[1])
    /\ mesh_a[1] # mesh_o[2]

\* C6: the retained vertices are exactly the vertex indices present in the
\* vertex-geometry stream of every selected stage, and the same set results from
\* any permutation of the selected stages.
C6_RetainedIsIntersection ==
    Assembled
    => /\ Range(element_set) = InEveryStage(list_stage)
       /\ \A q \in SeqPermutations(list_stage) :
            ElementSet(q, coords_valid) = Range(element_set)

\* C6 witness: two stages with different valid sets are selected and the retained
\* set is a non-empty proper subset of each.
C6_Witness ==
    /\ Assembled
    /\ Len(list_stage) = 2
    /\ Range(element_set) # {}
    /\ Range(element_set) # coords_valid[list_stage[1] + 1]
    /\ Range(element_set) # coords_valid[list_stage[2] + 1]

C7_RoundTrip ==
    hpc = "loaded"
    => /\ Val(loaded).time = saved.time
       /\ Val(loaded).force = saved.force
       /\ Val(loaded).strains = saved.strains
       /\ Val(loaded).coords = saved.coords
       /\ Val(loaded).node_normals = saved.node_normals
       /\ Val(loaded).mesh = saved.mesh

\* number of names of the document each channel pattern matches
ShearCount == Cardinality({i \in DOMAIN list_epsilon : MatchShear(list_epsilon[i])})

YCount == Cardinality({i \in DOMAIN list_epsilon : MatchY(list_epsilon[i])})

XCount == Cardinality({i \in DOMAIN list_epsilon : MatchX(list_epsilon[i])})

\* C10 (as claimed): parse fails, and returns no strains, whenever the shear, the
\* Y-normal or the X-normal pattern is matched by no name or by several names
\* among all component names of the document.
C10_AmbiguousChannelFails ==
    ppc = "returned"
    => /\ ShearCount = 1
       /\ YCount = 1
       /\ XCount = 1

(***************************************************************************)
(* Reference notions of the binary messages                                *)
(***************************************************************************)
DecodeEnded == dpc \in {"returned", "error"}

\* a message written as the format prescribes
WellFormed(p) ==
    /\ p.declared = Len(p.recs)
    /\ p.extra = <<>>
    /\ \A i \in DOMAIN p.recs : p.recs[i].valid \in {0, 1}

\* vertex indices whose valid byte is 1
ValidKeys(p) == {i - 1 : i \in {j \in DOMAIN p.recs : p.recs[j].valid = 1}}

\* 0-based positions of the declared records whose valid byte is neither 0 nor 1
BadRecords(p) ==
    {i - 1 : i \in {j \in DOMAIN p.recs : j <= p.declared /\ p.recs[j].valid \notin {0, 1}}}

\* C11 (as claimed): every well-formed scalar message, of any version, unit label
\* and direction flag 0 or 1, decodes successfully into the map from the vertices
\* whose valid byte is 1 to their scalars (and vectors when the flag is 1).
C11_ScalarDecodeSucceeds ==
    (decoder = "scalar" /\ DecodeEnded /\ WellFormed(payload) /\ payload.flag \in {0, 1})
    => /\ dpc = "returned"
       /\ DOMAIN Val(d_result).scalar = ValidKeys(payload)
       /\ \A k \in ValidKeys(payload) :
            Val(d_result).scalar[k] = <<payload.recs[k + 1].scalar>>
       /\ payload.flag = 1
          => /\ Val(d_result).vector # None
             /\ DOMAIN Val(Val(d_result).vector) = ValidKeys(payload)
             /\ \A k \in ValidKeys(payload) :
                  Val(Val(d_result).vector)[k] = payload.recs[k + 1].vector

\* C12: in the scalar and in the vertex decode, a declared record whose valid byte
\* is neither 0 nor 1 stops the decode with an error at that record: the loop
\* never passes it and no map is returned.
C12_InvalidFlagFails ==
    (decoder \in {"scalar", "vertices"} /\ BadRecords(payload) # {})
    => /\ d_result = None
       /\ dpc \in {"call", "loop", "error"}
       /\ d_i <= SetMin(BadRecords(payload))
       /\ dpc = "loop" => SetMin(BadRecords(payload)) < Val(n_vertices)
       /\ dpc = "error" => /\ d_raised = Some("RuntimeError")
                           /\ d_i = SetMin(BadRecords(payload))

\* C12 witness: the vertex decode stopped at a bad record after a valid one.
C12_Witness ==
    /\ decoder = "vertices"
    /\ dpc = "error"
    /\ d_raised = Some("RuntimeError")
    /\ d_i = 1
    /\ indexes = <<0>>
    /\ BadRecords(payload) = {1}

\* C13 (as claimed): a decode that returns has consumed the whole message, in
\* each of the three decoders.
C13_LengthMismatchFails ==
    dpc = "returned" => off = Len(message_bytes)

\* C14 (as claimed): a scalar message of version >= 2 whose direction flag is
\* neither 0 nor 1 fails to decode.
C14_BadDirectionFlagFails ==
    (decoder = "scalar" /\ DecodeEnded /\ payload.version >= 2 /\ payload.flag \notin {0, 1})
    => dpc = "error"

\* C18 (as claimed): every well-formed vertex message decodes into the map from
\* the vertices whose valid byte is 1 (empty when there is none) to
\* min_corner[i] + (max_corner[i] - min_corner[i]) * raw[i] / (2^32 - 1) per axis.
C18_VerticesDecoded ==
    (decoder = "vertices" /\ DecodeEnded /\ WellFormed(payload))
    => /\ dpc = "returned"
       /\ DOMAIN Val(d_result) = ValidKeys(payload)
       /\ \A k \in ValidKeys(payload) : \A a \in 1..3 :
            LET x == Val(d_result)[k][a]
            IN  /\ x.shift = payload.min_corner[a]
                /\ x.scale = [minuend |-> payload.max_corner[a],
                              subtrahend |-> payload.min_corner[a]]
                /\ x.ratio = [num |-> payload.recs[k + 1].raw[a], den |-> MAX_UINT]

(***************************************************************************)
(* Reference notions of the strain rotation                                *)
(***************************************************************************)
RotSteps == 1..NumRotSteps
RotPts == 1..NumRotPts

\* C15 (as claimed): rotate with the identity matrix leaves coords, node_normals
\* and the three strain components unchanged at every (timestep, point), and
\* leaves force, time and mesh unchanged.
C15_IdentityRotation ==
    (rpc = "done" /\ matrix = Some(Identity))
    => /\ Val(rot_out).coords = Val(rot_self).coords
       /\ Val(rot_out).node_normals = Val(rot_self).node_normals
       /\ \A t \in RotSteps : \A p \in RotPts :
            Val(rot_out).strains[t][p] = Val(rot_self).strains[t][p]
       /\ Val(rot_out).force = Val(rot_self).force
       /\ Val(rot_out).time = Val(rot_self).time
       /\ Val(rot_out).mesh = Val(rot_self).mesh

\* C17 (as claimed): at every (timestep, vertex) the sign given to sin theta is
\* the sign of (old_axis x new_axis) . normal, with the pre-rotation normal,
\* old_axis = normalize(normal x Y) and new_axis = R . old_axis.
C17_SinSign ==
    rpc = "done"
    => \A t \in RotSteps : \A p \in RotPts :
         LET normal == Val(rot_self).node_normals[t][p]
             old_axis == Val(old_e_x)[t][p]
             new_axis == Val(new_e_x)[t][p]
         IN  /\ old_axis = OldAxis(normal)
             /\ new_axis = MatVec(Val(matrix), old_axis)
             /\ Val(sgn_th)[t][p] = Sign(Dot(Cross(old_axis, new_axis), normal))
             /\ Val(sin_th)[t][p] = FMul(Norm(Cross(old_axis, new_axis)), Val(sgn_th)[t][p])

\* every other vertex that shares at least one triangle with v
OneRing(m, v) == {u \in UNION {Range(m[e]) : e \in DOMAIN m} :
                    u # v /\ \E e \in DOMAIN m : {u, v} \subseteq Range(m[e])}

Occurrences(list, x) == Cardinality({i \in DOMAIN list : list[i] = x})

\* C16 (as claimed): the point list of every vertex v holds v exactly once and,
\* exactly once each, every other vertex sharing a triangle with v, nothing else.
C16_PointListIsOneRing ==
    \A i \in DOMAIN points :
        LET v == i - 1
        IN  /\ Occurrences(points[i], v) = 1
            /\ \A u \in OneRing(n_mesh, v) : Occurrences(points[i], u) = 1
            /\ Range(points[i]) = {v} \cup OneRing(n_mesh, v)

\* C19: on every mesh whose triangles have three distinct vertices mesh_holes
\* terminates: each pass of the inner while consumes at least one edge, the
\* walk closes at the start vertex of the seed edge, and the call returns.
C19_MeshHolesTerminates ==
    /\ [](pc = "remove" => to_remove # {})
    /\ []((pc = "remove" /\ ~link_running)
            => buff_hole[Len(buff_hole)][2] = end_summit /\ buff_hole[1][1] = end_summit)
    /\ [](pc # "error")
    /\ <>(pc = "return")

\* C19 witness: a walk of at least four edges that needed several passes closes.
C19_Witness ==
    /\ pc = "remove"
    /\ ~link_running
    /\ passes >= 2
    /\ Len(buff_hole) >= 4
    /\ to_remove # {}

====
